---- MODULE Spec2Model ----
(***************************************************************************)
(* A model of the price resolution engine of cs2-tracker-backend           *)
(* (src/main.py): the in-memory TTL cache, the name normaliser, the price  *)
(* string parser, the Skinport catalog fetch with its retry loop, the      *)
(* catalog matcher, the per-item resolver with source fallback, and the    *)
(* /prices handler that resolves a batch under an asyncio semaphore.       *)
(*                                                                         *)
(* Representation.                                                         *)
(*   - A Python str is a sequence of one-character strings.                *)
(*   - None is the empty tuple <<>>.                                       *)
(*   - A float is a decimal <<m, e>> standing for m / 10^e, kept with the  *)
(*     smallest e (no trailing zero digit in the fraction).                *)
(*   - A JSON value is a tagged tuple: <<"null">>, <<"bool", b>>,          *)
(*     <<"num", dec>>, <<"str", s>>, <<"list", seq>>, <<"obj", f>>.        *)
(***************************************************************************)
EXTENDS Integers, Sequences, FiniteSets, TLC

(***************************************************************************)
(* Characters and strings                                                  *)
(***************************************************************************)

LowerSeq ==
  <<"a","b","c","d","e","f","g","h","i","j","k","l","m",
    "n","o","p","q","r","s","t","u","v","w","x","y","z">>

UpperSeq ==
  <<"A","B","C","D","E","F","G","H","I","J","K","L","M",
    "N","O","P","Q","R","S","T","U","V","W","X","Y","Z">>

DigitSeq ==
  <<"0","1","2","3","4","5","6","7","8","9">>

Range(f) ==
  { f[i] : i \in DOMAIN f }

Lower ==
  Range(LowerSeq)

Upper ==
  Range(UpperSeq)

Digit ==
  Range(DigitSeq)

\* str.isspace for the characters the model uses
IsSpace(c) ==
  c \in {" ", "\t", "\n"}

\* [a-zA-Z0-9] of the regular expression at line 96
IsAlnum(c) ==
  c \in Lower \cup Upper \cup Digit

\* \w of a Python str pattern: a letter, a digit or the underscore
\* (the star, the trademark sign and the pipe are not word characters)
IsWord(c) ==
  IsAlnum(c) \/ c = "_"

IndexIn(c, s) ==
  CHOOSE i \in DOMAIN s : s[i] = c

\* str.lower on one character
LowerChar(c) ==
  IF c \in Upper THEN LowerSeq[IndexIn(c, UpperSeq)] ELSE c

\* str.lower
PyLower(s) ==
  [i \in DOMAIN s |-> LowerChar(s[i])]

DigitVal(c) ==
  IndexIn(c, DigitSeq) - 1

RECURSIVE LStrip(_)
LStrip(s) ==
  IF s # <<>> /\ IsSpace(Head(s)) THEN LStrip(Tail(s)) ELSE s

RECURSIVE RStrip(_)
RStrip(s) ==
  IF s # <<>> /\ IsSpace(s[Len(s)]) THEN RStrip(SubSeq(s, 1, Len(s) - 1)) ELSE s

\* str.strip
PyStrip(s) ==
  RStrip(LStrip(s))

\* str.replace(old, new) for a one-character old and a string new
RECURSIVE PyReplace(_, _, _)
PyReplace(s, old, new) ==
  IF s = <<>> THEN <<>>
  ELSE (IF Head(s) = old THEN new ELSE <<Head(s)>>) \o PyReplace(Tail(s), old, new)

\* str.count for a one-character needle
PyCount(s, c) ==
  Cardinality({ i \in DOMAIN s : s[i] = c })

\* the text after the last occurrence of c: s.split(c)[-1]
LastGroup(s, c) ==
  LET idx == { i \in DOMAIN s : s[i] = c }
      last == IF idx = {} THEN 0 ELSE CHOOSE i \in idx : \A j \in idx : j <= i
  IN SubSeq(s, last + 1, Len(s))

\* needle in hay
IsSubstring(needle, hay) ==
  \E p \in 0..(Len(hay) - Len(needle)) :
     SubSeq(hay, p + 1, p + Len(needle)) = needle

(***************************************************************************)
(* None and floats                                                         *)
(***************************************************************************)

None ==
  <<>>

RECURSIVE Pow10(_)
Pow10(n) ==
  IF n = 0 THEN 1 ELSE 10 * Pow10(n - 1)

\* the decimal m / 10^e in lowest form
RECURSIVE Dec(_, _)
Dec(m, e) ==
  IF e > 0 /\ m % 10 = 0 THEN Dec(m \div 10, e - 1) ELSE <<m, e>>

DecSub(a, b) ==
  LET e == IF a[2] > b[2] THEN a[2] ELSE b[2]
  IN Dec(a[1] * Pow10(e - a[2]) - b[1] * Pow10(e - b[2]), e)

DecMulInt(a, n) ==
  Dec(a[1] * n, a[2])

DecIsZero(a) ==
  a[1] = 0

\* n / d rounded to the nearest integer, ties to even (d > 0)
RoundDiv(n, d) ==
  LET q == n \div d
      r == n % d
  IN IF 2 * r < d THEN q
     ELSE IF 2 * r > d THEN q + 1
     ELSE IF q % 2 = 0 THEN q ELSE q + 1

\* round(x, 2): Python rounds the binary float; the model rounds the decimal
\* it stands for, ties to even
Round2(a) ==
  IF a[2] <= 2 THEN a ELSE Dec(RoundDiv(a[1], Pow10(a[2] - 2)), 2)

\* round((a / b) * 100, 2) for b # 0
PercentOf(a, b) ==
  LET n == a[1] * Pow10(b[2]) * 10000
      d == b[1] * Pow10(a[2])
  IN IF d > 0 THEN Dec(RoundDiv(n, d), 2) ELSE Dec(RoundDiv(-n, -d), 2)

RECURSIVE DigitsValue(_)
DigitsValue(s) ==
  IF s = <<>> THEN 0 ELSE 10 * DigitsValue(SubSeq(s, 1, Len(s) - 1)) + DigitVal(s[Len(s)])

\* float(s) for a str of the model's alphabet: surrounding whitespace, an
\* optional sign, digits with at most one period and at least one digit.
\* None stands for the ValueError.  (Exponents, underscores, "inf" and
\* "nan" are outside the strings the model feeds it.)
PyFloat(s) ==
  LET Unsigned(neg, body) ==
        LET dots == { i \in DOMAIN body : body[i] = "." }
            ok   == /\ \A i \in DOMAIN body : body[i] \in Digit \cup {"."}
                    /\ Cardinality(dots) <= 1
                    /\ \E i \in DOMAIN body : body[i] \in Digit
            dot  == IF dots = {} THEN Len(body) + 1 ELSE CHOOSE i \in dots : TRUE
            fp   == SubSeq(body, dot + 1, Len(body))
            mag  == DigitsValue(SubSeq(body, 1, dot - 1) \o fp)
        IN IF ok THEN Dec(IF neg THEN -mag ELSE mag, Len(fp)) ELSE None
      Signed(t) ==
        Unsigned(t # <<>> /\ Head(t) = "-",
                 IF t # <<>> /\ Head(t) \in {"-", "+"} THEN Tail(t) ELSE t)
  IN Signed(PyStrip(s))

(***************************************************************************)
(* PriceStringParser: extract_number_from_price_str                        *)
(***************************************************************************)

\* the characters of the class [\d\.,]
IsNumChar(c) ==
  c \in Digit \cup {".", ","}

\* re.search(r"[\d\.,]+", s).group(0): the first maximal run of number
\* characters; <<>> when there is none (m is None)
FirstNumRun(s) ==
  LET starts == { i \in DOMAIN s : IsNumChar(s[i]) }
  IN IF starts = {} THEN <<>>
     ELSE LET b == CHOOSE i \in starts : \A j \in starts : i <= j
              e == CHOOSE k \in b..Len(s) :
                     /\ \A j \in b..k : IsNumChar(s[j])
                     /\ (k = Len(s) \/ ~IsNumChar(s[k + 1]))
          IN SubSeq(s, b, e)

\* RewriteSeparators with every lone comma read as the decimal point
RewriteSeparators_DecimalComma(num) ==
  IF PyCount(num, ",") > 0 /\ PyCount(num, ".") > 0
    THEN PyReplace(num, ",", <<>>)
  ELSE PyReplace(num, ",", <<".">>)

\* lines 72-78: the separator rewrite of the matched text
RewriteSeparators(num) ==
  IF PyCount(num, ",") > 0 /\ PyCount(num, ".") > 0
    THEN PyReplace(num, ",", <<>>)
  ELSE IF PyCount(num, ",") > 0 /\ PyCount(num, ".") = 0
    THEN IF Len(LastGroup(num, ",")) = 3
           THEN PyReplace(num, ",", <<>>)
           ELSE PyReplace(num, ",", <<".">>)
  ELSE num

extract_number_from_price_str(s) ==
  IF s = <<>> THEN None
  ELSE LET Convert(num) == IF num = <<>> THEN None ELSE PyFloat(RewriteSeparators(num))
       IN Convert(FirstNumRun(s))

\* parse_float_safe on the text of a cell: float(str(v).replace(",", "").strip())
parse_float_safe(v) ==
  PyFloat(PyStrip(PyReplace(v, ",", <<>>)))

\* int(x) of a float: truncation toward zero
DecTrunc(a) ==
  IF a[1] >= 0 THEN a[1] \div Pow10(a[2]) ELSE -((-a[1]) \div Pow10(a[2]))

\* parse_quantity on the text of a cell: max(1, int(float(str(v)))), 1 on error
parse_quantity(v) ==
  LET Quantity(f) == IF f = None THEN 1
                     ELSE IF DecTrunc(f) > 1 THEN DecTrunc(f) ELSE 1
  IN Quantity(PyFloat(v))

(***************************************************************************)
(* NameNormalizer: normalize_name                                          *)
(***************************************************************************)

\* the star and the trademark sign, each one character of a name
STAR ==
  "<star>"

TM ==
  "<tm>"

\* s[p+1 .. p+Len(w)] equals w, ignoring case (re.I)
MatchesAt(s, p, w) ==
  /\ p + Len(w) <= Len(s)
  /\ PyLower(SubSeq(s, p + 1, p + Len(w))) = w

\* \b between positions p and p+1 of s (p characters lie to the left)
WordBoundary(s, p) ==
  LET left  == p >= 1 /\ IsWord(s[p])
      right == p < Len(s) /\ IsWord(s[p + 1])
  IN left # right

RECURSIVE SpaceRun(_, _)
\* the number of whitespace characters of s from position p+1 on
SpaceRun(s, p) ==
  IF p < Len(s) /\ IsSpace(s[p + 1]) THEN 1 + SpaceRun(s, p + 1) ELSE 0

\* the length of the match of \bstat[-\s]?trak\b that starts after p
\* characters, 0 when there is none
StatTrakMatchLen(s, p) ==
  LET w1  == <<"s","t","a","t">>
      w2  == <<"t","r","a","k">>
      sep == IF p + 4 < Len(s) /\ (s[p + 5] = "-" \/ IsSpace(s[p + 5])) THEN 1 ELSE 0
  IN IF /\ WordBoundary(s, p)
        /\ MatchesAt(s, p, w1)
        /\ MatchesAt(s, p + 4 + sep, w2)
        /\ WordBoundary(s, p + 8 + sep)
     THEN 8 + sep ELSE 0

\* the length of the match of \bfield\s*tested\b that starts after p
\* characters, 0 when there is none
FieldTestedMatchLen(s, p) ==
  LET w1 == <<"f","i","e","l","d">>
      w2 == <<"t","e","s","t","e","d">>
      n  == SpaceRun(s, p + 5)
  IN IF /\ WordBoundary(s, p)
        /\ MatchesAt(s, p, w1)
        /\ MatchesAt(s, p + 5 + n, w2)
        /\ WordBoundary(s, p + 11 + n)
     THEN 11 + n ELSE 0

RECURSIVE SubStatTrak(_, _)
\* re.sub(r"\bstat[-\s]?trak\b", "StatTrak", s, flags=re.I) from position p on
SubStatTrak(s, p) ==
  IF p >= Len(s) THEN <<>>
  ELSE LET Rest(n) == IF n > 0
                        THEN <<"S","t","a","t","T","r","a","k">> \o SubStatTrak(s, p + n)
                        ELSE <<s[p + 1]>> \o SubStatTrak(s, p + 1)
       IN Rest(StatTrakMatchLen(s, p))

RECURSIVE SubFieldTested(_, _)
\* re.sub(r"\bfield\s*tested\b", "Field-Tested", s, flags=re.I) from position p on
SubFieldTested(s, p) ==
  IF p >= Len(s) THEN <<>>
  ELSE LET Rest(n) == IF n > 0
                        THEN <<"F","i","e","l","d","-","T","e","s","t","e","d">>
                               \o SubFieldTested(s, p + n)
                        ELSE <<s[p + 1]>> \o SubFieldTested(s, p + 1)
       IN Rest(FieldTestedMatchLen(s, p))

RECURSIVE CollapseNonAlnum(_)
\* re.sub(r"[^a-zA-Z0-9]+", " ", s)
CollapseNonAlnum(s) ==
  IF s = <<>> THEN <<>>
  ELSE IF IsAlnum(Head(s)) THEN <<Head(s)>> \o CollapseNonAlnum(Tail(s))
  ELSE IF Len(s) >= 2 /\ ~IsAlnum(s[2]) THEN CollapseNonAlnum(Tail(s))
  ELSE <<" ">> \o CollapseNonAlnum(Tail(s))

RECURSIVE SqueezeSpaces(_)
\* re.sub(r"\s+", " ", s)
SqueezeSpaces(s) ==
  IF s = <<>> THEN <<>>
  ELSE IF ~IsSpace(Head(s)) THEN <<Head(s)>> \o SqueezeSpaces(Tail(s))
  ELSE IF Len(s) >= 2 /\ IsSpace(s[2]) THEN SqueezeSpaces(Tail(s))
  ELSE <<" ">> \o SqueezeSpaces(Tail(s))

normalize_name(s) ==
  IF s = <<>> THEN <<>>
  ELSE LET t0 == PyStrip(s)
           t1 == SubStatTrak(t0, 0)
           t2 == SubFieldTested(t1, 0)
           t3 == PyReplace(PyReplace(PyReplace(t2, STAR, <<" ">>), TM, <<" ">>), "|", <<" ">>)
           t4 == CollapseNonAlnum(t3)
       IN PyLower(PyStrip(SqueezeSpaces(t4)))

key_eq(a, b) ==
  normalize_name(a) = normalize_name(b)

key_contains(hay, needle) ==
  IsSubstring(normalize_name(needle), normalize_name(hay))

(***************************************************************************)
(* JSON values as Python sees them                                         *)
(***************************************************************************)

JNull ==
  <<"null">>

JStr(s) ==
  <<"str", s>>

JNum(d) ==
  <<"num", d>>

JBool(b) ==
  <<"bool", b>>

JList(l) ==
  <<"list", l>>

JObj(f) ==
  <<"obj", f>>

\* bool(v)
Truthy(v) ==
  CASE v[1] = "null" -> FALSE
    [] v[1] = "bool" -> v[2]
    [] v[1] = "num"  -> v[2][1] # 0
    [] v[1] = "str"  -> v[2] # <<>>
    [] v[1] = "list" -> v[2] # <<>>
    [] v[1] = "obj"  -> DOMAIN v[2] # {}

\* d.get(k) on a dict
JGet(o, k) ==
  IF k \in DOMAIN o[2] THEN o[2][k] ELSE JNull

\* a or b
PyOr(a, b) ==
  IF Truthy(a) THEN a ELSE b

\* float(v) inside try/except: None stands for the exception
\* (ValueError for a str that is no number, TypeError for a list or a dict)
JFloat(v) ==
  CASE v[1] = "num"  -> v[2]
    [] v[1] = "str"  -> PyFloat(v[2])
    [] v[1] = "bool" -> IF v[2] THEN <<1, 0>> ELSE <<0, 0>>
    [] OTHER         -> None

(***************************************************************************)
(* HTTP responses: <<"exc">> is a transport failure or timeout,            *)
(* <<"resp", status, body>> a response whose body is a JSON value or       *)
(* <<"notjson">> (r.json() raises)                                         *)
(***************************************************************************)

IsExc(r) ==
  r[1] = "exc"

Status(r) ==
  r[2]

Body(r) ==
  r[3]

IsJson(b) ==
  b[1] # "notjson"

(***************************************************************************)
(* DirectQuoteClient: fetch_steam_price                                    *)
(***************************************************************************)

\* the value fetch_steam_price returns for the response r of its one GET
fetch_steam_price(r) ==
  IF IsExc(r) THEN None
  ELSE IF Status(r) # 200 THEN None
  ELSE IF ~IsJson(Body(r)) THEN None
  ELSE IF Body(r)[1] # "obj" THEN None
  ELSE IF ~Truthy(JGet(Body(r), "success")) THEN None
  ELSE LET Quote(price_str) ==
             IF ~Truthy(price_str) THEN None
             ELSE IF price_str[1] = "str" THEN extract_number_from_price_str(price_str[2])
             ELSE None
       IN Quote(PyOr(JGet(Body(r), "median_price"), JGet(Body(r), "lowest_price")))

(***************************************************************************)
(* CatalogMatcher: best_skinport_match, and the price of the match         *)
(***************************************************************************)

PRICE_KEYS ==
  <<"price", "min_price", "market_price", "last_price",
    "mean_price", "median_price", "suggested_price">>

\* item.get(k) or "" is handed to normalize_name: a truthy value that is no
\* str has no strip(), and an entry that is no dict has no get()
NameRaises(item, k) ==
  Truthy(JGet(item, k)) /\ JGet(item, k)[1] # "str"

EntryRaises(item) ==
  \/ item[1] # "obj"
  \/ NameRaises(item, "market_hash_name")
  \/ NameRaises(item, "name")

\* normalize_name(item.get(k) or "")
EntryName(item, k) ==
  IF Truthy(JGet(item, k)) THEN normalize_name(JGet(item, k)[2]) ELSE <<>>

RECURSIVE ExactPass(_, _, _)
\* lines 229-233 from entry i on: <<"raise">>, <<"found", index>> or <<"none">>
ExactPass(catalog, t, i) ==
  IF i > Len(catalog) THEN <<"none">>
  ELSE IF EntryRaises(catalog[i]) THEN <<"raise">>
  ELSE IF \E k \in {"market_hash_name", "name"} : t = EntryName(catalog[i], k)
    THEN <<"found", i>>
  ELSE ExactPass(catalog, t, i + 1)

RECURSIVE ContainsPass(_, _, _)
\* lines 235-239 from entry i on
ContainsPass(catalog, t, i) ==
  IF i > Len(catalog) THEN <<"none">>
  ELSE IF EntryRaises(catalog[i]) THEN <<"raise">>
  ELSE IF \E k \in {"market_hash_name", "name"} : IsSubstring(t, EntryName(catalog[i], k))
    THEN <<"found", i>>
  ELSE ContainsPass(catalog, t, i + 1)

\* best_skinport_match with the second loop only
best_skinport_match_OnePass(catalog, target_name) ==
  ContainsPass(catalog, normalize_name(target_name), 1)

\* <<"raise">>, <<"found", index of the entry>> or <<"none">>
best_skinport_match(catalog, target_name) ==
  LET Second(t, p1) == IF p1[1] = "none" THEN ContainsPass(catalog, t, 1) ELSE p1
      First(t)      == Second(t, ExactPass(catalog, t, 1))
  IN First(normalize_name(target_name))

RECURSIVE FirstPrice(_, _)
\* lines 249-255 from key number i on
FirstPrice(match, i) ==
  IF i > Len(PRICE_KEYS) THEN None
  ELSE LET Try(v, f) == IF v[1] # "null" /\ f # None THEN f ELSE FirstPrice(match, i + 1)
           Key(v)    == Try(v, JFloat(v))
       IN Key(JGet(match, PRICE_KEYS[i]))

\* lines 244-255 of fetch_skinport_price, once the catalog is at hand:
\* <<"raise">> or <<"ret", price>>
price_from_catalog(catalog, name) ==
  IF catalog = <<>> THEN <<"ret", None>>
  ELSE LET Price(m) == IF m[1] = "raise" THEN <<"raise">>
                        ELSE IF m[1] = "none" THEN <<"ret", None>>
                        ELSE IF ~Truthy(catalog[m[2]]) THEN <<"ret", None>>
                        ELSE <<"ret", FirstPrice(catalog[m[2]], 1)>>
       IN Price(best_skinport_match(catalog, name))

(***************************************************************************)
(* Configuration (lines 14-23) and the bounds of the model                 *)
(***************************************************************************)

\* CACHE_TTL_SECONDS, default 6 * 3600
CACHE_TTL_SECONDS ==
  21600

\* ttl of the catalog snapshot, cache_set(..., ttl=3600)
CATALOG_TTL ==
  3600

\* ttl of the sheet rows, cache_set(..., ttl=60)
SHEET_TTL ==
  60

\* REQUEST_CONCURRENCY is read from the environment (default 4); the model
\* runs with 2 slots so that a batch of MaxItems rows has to queue
REQUEST_CONCURRENCY ==
  2

\* the base of the sleep between attempts, 0.8 s, in tenths of a second
BACKOFF_BASE ==
  8

\* the retry loop of fetch_skinport_catalog: for attempt in range(3)
CATALOG_ATTEMPTS ==
  3

\* rows of one sheet
MaxItems ==
  3

\* rows of one sheet while the clock runs
TTLItems ==
  2

\* REQUEST_CONCURRENCY of the deployment whose clock runs: one slot, so that
\* a batch of TTLItems rows has to queue
TTL_CONCURRENCY ==
  1

\* /prices requests in one behaviour
MaxRequests ==
  2

\* the clock stops here
MaxTime ==
  25200

\* pieces of one item name
MaxTokens ==
  4

\* pieces of one price text
MaxPieces ==
  5

\* characters of one price text
MaxPriceLen ==
  8

\* entries of one catalog handed to best_skinport_match
MaxCatalog ==
  3

\* applications of normalize_name in a row
MaxApply ==
  2

\* the readings of time.time() after the first: the ttl of the catalog has
\* run out, the ttl of a quote has run out, and both once more
Instants ==
  {CATALOG_TTL, CACHE_TTL_SECONDS, MaxTime}

STEAM ==
  <<"s","t","e","a","m">>

SKINPORT ==
  <<"s","k","i","n","p","o","r","t">>

(***************************************************************************)
(* The inputs: cells of the sheet, upstream responses                      *)
(***************************************************************************)

NameAK ==
  <<"A","K","-","4","7">>

NameAKDecorated ==
  <<STAR," ","a","k"," ","4","7">>

RawRow(n, s, p, q) ==
  [item_name |-> n, source |-> s, paid_price |-> p, quantity |-> q]

\* the rows a sheet is made of, as the texts of their cells (<<>> an empty cell)
RawRows ==
  { RawRow(NameAK, <<>>, <<"1","0",".","0","0">>, <<"2">>),
    RawRow(NameAK, <<"S","t","e","a","m"," ">>, <<"x">>, <<"0">>),
    RawRow(NameAKDecorated, <<"S","k","i","n","p","o","r","t">>, <<"0">>, <<>>),
    RawRow(<<" ">>, <<>>, <<"5">>, <<"1">>) }

\* An inventory whose rows name one item in two spellings, with the same
\* source, paid price and quantity
DecoratedRows ==
  { RawRow(NameAK, <<>>, <<"1","0",".","0","0">>, <<"2">>),
    RawRow(NameAKDecorated, <<>>, <<"1","0",".","0","0">>, <<"2">>) }

RECURSIVE SeqsUpTo(_, _)
\* the sequences over S of length at most n
SeqsUpTo(S, n) ==
  IF n = 0 THEN {<<>>}
  ELSE LET shorter == SeqsUpTo(S, n - 1)
       IN shorter \cup { Append(s, x) : s \in { u \in shorter : Len(u) = n - 1 }, x \in S }

NoRepeat(s) ==
  \A i, j \in DOMAIN s : s[i] = s[j] => i = j

\* the sheets of at most n rows, no row listed twice
SheetsOf(n) ==
  { s \in SeqsUpTo(RawRows, n) : s # <<>> /\ NoRepeat(s) }

Exc ==
  <<"exc">>

Resp(status, body) ==
  <<"resp", status, body>>

NotJson ==
  <<"notjson">>

\* what the price overview endpoint may answer
SteamResponses ==
  { Exc,
    Resp(500, NotJson),
    Resp(200, NotJson),
    Resp(200, JList(<<>>)),
    Resp(200, JObj([success |-> JBool(FALSE)])),
    Resp(200, JObj([success |-> JBool(TRUE)])),
    Resp(200, JObj([success |-> JBool(TRUE), median_price |-> JStr(<<"$","1","2",".","5","0">>),
                    lowest_price |-> JStr(<<"$","1","1",".","0","0">>)])),
    Resp(200, JObj([success |-> JBool(TRUE), lowest_price |-> JStr(<<"1","2",",","5"," ","C","A","D">>)])) }

CatGood ==
  <<JObj([market_hash_name |-> JStr(<<"A","K","-","4","7"," ","|"," ","R","e","d">>),
          min_price |-> JNum(<<35, 1>>)]),
    JObj([name |-> JStr(<<STAR," ","A","K","-","4","7">>),
          price |-> JNull, min_price |-> JStr(<<"7",".","2","5">>)])>>

CatNonObject ==
  <<JNum(<<5, 0>>)>>

CatNonStringName ==
  <<JObj([market_hash_name |-> JNum(<<123, 0>>), price |-> JNum(<<1, 0>>)])>>

\* what the catalog endpoint may answer
CatalogResponses ==
  { Exc,
    Resp(502, NotJson),
    Resp(404, NotJson),
    Resp(200, NotJson),
    Resp(200, JObj(<<>>)),
    Resp(200, JList(<<>>)),
    Resp(200, JList(CatGood)),
    Resp(200, JList(CatNonObject)),
    Resp(200, JList(CatNonStringName)) }

\* fetch_steam_price for each answer of the Steam endpoint, worked out once
SteamQuote ==
  [r \in SteamResponses |-> fetch_steam_price(r)]

\* the item names of the rows
ItemNames ==
  { PyStrip(r.item_name) : r \in RawRows \cup DecoratedRows }

\* the lists fetch_skinport_catalog may hand to fetch_skinport_price
Catalogs ==
  {<<>>} \cup { Body(r)[2] : r \in { x \in CatalogResponses :
                                      /\ ~IsExc(x)
                                      /\ Status(x) = 200
                                      /\ IsJson(Body(x))
                                      /\ Body(x)[1] = "list" } }

\* lines 244-255 for each such list and each item name, worked out once
CatalogQuote ==
  [c \in Catalogs, n \in ItemNames |-> price_from_catalog(c, n)]

(***************************************************************************)
(* State                                                                   *)
(***************************************************************************)

VARIABLES
  now,             \* time.time(), in seconds
  _CACHE,          \* key -> value, for the keys that are present
  _CACHE_EXPIRES,  \* key -> expiry time, for the keys that are present
  req,             \* the /prices request: "idle", "sheet", "gather", "returned", "failed"
  items,           \* the rows read_items_from_sheet returned
  task,            \* the fetch_price_for_item coroutine of each row
  sem_value,       \* the counter of the asyncio.Semaphore
  sem_waiters,     \* the tasks queued on the semaphore, first come first
  output,          \* the list /prices returns
  nreq,            \* the number of /prices requests so far (history)
  holders,         \* the tasks inside "async with sem" (history)
  lastGood,        \* the last catalog a GET delivered, None before the first (history)
  lastQuote,       \* per price key, the price and time of the last resolution that
                   \* finished on the miss path (history; None before the first)
  call             \* the call of a helper on its own: its argument and what it
                   \* returned; None while the service runs

vars ==
  <<now, _CACHE, _CACHE_EXPIRES, req, items, task, sem_value, sem_waiters, output, nreq,
    holders, lastGood, lastQuote, call>>

SHEET_KEY ==
  <<"sheet_rows">>

CATALOG_KEY ==
  <<"skinport_catalog">>

\* f"price::{source}::{name}"
PriceKey(source, name) ==
  <<"price", source, name>>

KeyOf(i) ==
  PriceKey(items[i].source, items[i].item_name)

(***************************************************************************)
(* IN-MEMORY CACHE: cache_get, cache_set                                   *)
(***************************************************************************)

\* cache_fresh without the comparison with the clock
cache_fresh_IgnoresExpiry(E, key) ==
  key \in DOMAIN E /\ E[key] # 0

\* line 40: exp and exp > time.time()
cache_fresh(E, key) ==
  key \in DOMAIN E /\ E[key] # 0 /\ E[key] > now

\* the empty dict
EmptyMap ==
  [k \in {} |-> None]

Without(f, key) ==
  [k \in DOMAIN f \ {key} |-> f[k]]

With(f, key, v) ==
  [k \in DOMAIN f \cup {key} |-> IF k = key THEN v ELSE f[k]]

\* the cache after cache_get(key): a record that is not fresh is popped
cache_get_C(C, E, key) ==
  IF cache_fresh(E, key) THEN C ELSE Without(C, key)

cache_get_E(C, E, key) ==
  IF cache_fresh(E, key) THEN E
  ELSE IF key \in DOMAIN C THEN Without(E, key) ELSE E

cache_set_C(C, key, value) ==
  With(C, key, value)

\* cache_set that stamps the record with the time of the write, ttl left out
cache_set_E_NoTtl(E, key, ttl) ==
  With(E, key, now)

cache_set_E(E, key, ttl) ==
  With(E, key, now + ttl)

(***************************************************************************)
(* read_items_from_sheet: the rows of a sheet                              *)
(***************************************************************************)

\* lines 154-167 for one row of the sheet (cells are stripped at line 152)
ParseRow(r) ==
  [item_name  |-> PyStrip(r.item_name),
   source     |-> LET s == PyStrip(r.source)
                  IN PyLower(PyStrip(IF s = <<>> THEN STEAM ELSE s)),
   paid_price |-> LET c == PyStrip(r.paid_price)
                  IN parse_float_safe(IF c = <<>> THEN <<"0">> ELSE c),
   quantity   |-> LET c == PyStrip(r.quantity)
                  IN parse_quantity(IF c = <<>> THEN <<"1">> ELSE c)]

RECURSIVE ParseRows(_)
\* lines 145-167: a row without item_name is skipped
ParseRows(sheet) ==
  IF sheet = <<>> THEN <<>>
  ELSE IF PyStrip(Head(sheet).item_name) = <<>> THEN ParseRows(Tail(sheet))
  ELSE <<ParseRow(Head(sheet))>> \o ParseRows(Tail(sheet))

(***************************************************************************)
(* fetch_price_for_item, one coroutine per row                             *)
(*   pc: "init"     created by gather, not yet run                         *)
(*       "acquire"  waiting for the semaphore (line 269)                   *)
(*       "delay"    in asyncio.sleep(REQUEST_DELAY) (line 270)             *)
(*       "steam"    awaiting the GET of fetch_steam_price (line 185)       *)
(*       "catalog"  awaiting the GET of fetch_skinport_catalog (line 212)  *)
(*       "backoff"  in asyncio.sleep(0.8 * (attempt + 1)) (lines 219, 223) *)
(*       "done"     returned;  "raised"  ended with an exception           *)
(*   stage 1 is the call of the preferred source, stage 2 of the other.    *)
(*   tried, first, ncat, hit and stale record what the coroutine did: the  *)
(*   sources it called in order (a call of fetch_steam_price is one GET),  *)
(*   what the preferred one returned, its GETs of the catalog, whether it  *)
(*   was served from the cache, whether the last quote of its key had      *)
(*   outlived its ttl when it started; t0 is the time of its first run and got the list                 *)
(*   fetch_skinport_catalog handed it.  attempt, a local of fetch_skinport_catalog, is dead once the    *)
(*   coroutine has ended and is put back to 0 then.                        *)
(***************************************************************************)

Pending ==
  <<"pending">>

NewTask ==
  [pc |-> "init", stage |-> 1, attempt |-> 0, tried |-> <<>>, first |-> Pending,
   ncat |-> 0, hit |-> FALSE, stale |-> FALSE, t0 |-> 0, got |-> None, result |-> None]

Tasks ==
  DOMAIN task

Finished(i) ==
  task[i].pc \in {"done", "raised"}

AllStarted ==
  \A j \in Tasks : task[j].pc # "init"

\* the part of the state a step of a coroutine may change
Here ==
  [task |-> task, C |-> _CACHE, E |-> _CACHE_EXPIRES, sem |-> sem_value,
   holders |-> holders, good |-> lastGood, last |-> lastQuote, req |-> req]

\* Semaphore.locked()
locked ==
  sem_value = 0 \/ sem_waiters # <<>>

\* Finish with a cache that takes only the results that carry a price
Finish_SkipsNoQuote(st, i, price) ==
  LET result == [item_name     |-> items[i].item_name,
                 source        |-> items[i].source,
                 current_price |-> price,
                 timestamp_utc |-> now,
                 paid_price    |-> items[i].paid_price,
                 quantity      |-> items[i].quantity]
  IN [st EXCEPT !.task[i].pc = "done",
                !.task[i].attempt = 0,
                !.task[i].result = <<result>>,
                !.sem = @ + 1,
                !.holders = @ \ {i},
                !.C = IF price = None THEN @ ELSE cache_set_C(@, KeyOf(i), result),
                !.E = IF price = None THEN @ ELSE cache_set_E(@, KeyOf(i), CACHE_TTL_SECONDS),
                !.last = With(@, KeyOf(i), <<price, now>>)]

\* lines 281-290: leave "async with sem", build the result, cache it, return.
\* cache_set stores the very dict that lines 288-289 then complete, so the
\* cached record carries paid_price and quantity as well.
Finish(st, i, price) ==
  LET result == [item_name     |-> items[i].item_name,
                 source        |-> items[i].source,
                 current_price |-> price,
                 timestamp_utc |-> now,
                 paid_price    |-> items[i].paid_price,
                 quantity      |-> items[i].quantity]
  IN [st EXCEPT !.task[i].pc = "done",
                !.task[i].attempt = 0,
                !.task[i].result = <<result>>,
                !.sem = @ + 1,
                !.holders = @ \ {i},
                !.C = cache_set_C(@, KeyOf(i), result),
                !.E = cache_set_E(@, KeyOf(i), CACHE_TTL_SECONDS),
                !.last = With(@, KeyOf(i), <<price, now>>)]

\* Raise with an exception that leaves the slot taken
Raise_KeepsSlot(st, i) ==
  [st EXCEPT !.task[i].pc = "raised",
             !.task[i].attempt = 0,
             !.req = IF @ = "gather" THEN "failed" ELSE @]

\* an exception leaves fetch_price_for_item: "async with sem" releases the
\* slot, gather hands the exception to get_prices, which fails
Raise(st, i) ==
  [st EXCEPT !.task[i].pc = "raised",
             !.task[i].attempt = 0,
             !.sem = @ + 1,
             !.holders = @ \ {i},
             !.req = IF @ = "gather" THEN "failed" ELSE @]

\* fetch_steam_price is called (lines 275, 277): its GET is issued
StartSteam(st, i, stage) ==
  [st EXCEPT !.task[i].pc = "steam",
             !.task[i].stage = stage,
             !.task[i].tried = Append(@, "steam")]

\* the first source has answered at stage 1
NoteFirst(st, i, price) ==
  IF st.task[i].stage = 1 THEN [st EXCEPT !.task[i].first = <<"ret", price>>] ELSE st

\* fetch_skinport_price has the catalog at hand (lines 244-255); then lines
\* 274-275 or the end of the with block
CatalogResult(st, i, catalog) ==
  LET Then(s1, r) ==
        IF r[1] = "raise" THEN Raise(s1, i)
        ELSE IF r[2] # None \/ st.task[i].stage = 2 THEN Finish(NoteFirst(s1, i, r[2]), i, r[2])
        ELSE StartSteam(NoteFirst(s1, i, r[2]), i, 2)
  IN Then([st EXCEPT !.task[i].got = <<catalog>>],
          CatalogQuote[catalog, items[i].item_name])

\* fetch_skinport_price is called (lines 273, 279): fetch_skinport_catalog
\* answers from the cache or issues its first GET
StartSkinport(st, i, stage) ==
  LET s1 == [st EXCEPT !.task[i].stage = stage,
                       !.task[i].tried = Append(@, "skinport")]
  IN IF cache_fresh(st.E, CATALOG_KEY)
       THEN CatalogResult(s1, i, st.C[CATALOG_KEY])
       ELSE [s1 EXCEPT !.C = cache_get_C(st.C, st.E, CATALOG_KEY),
                       !.E = cache_get_E(st.C, st.E, CATALOG_KEY),
                       !.task[i].pc = "catalog",
                       !.task[i].attempt = 0,
                       !.task[i].ncat = @ + 1]

\* SteamResult without lines 278-279: the other source is never asked
SteamResult_NoFallback(st, i, price) ==
  Finish(NoteFirst(st, i, price), i, price)

\* fetch_steam_price has returned price; then lines 278-279 or the end of the
\* with block
SteamResult(st, i, price) ==
  LET Then(s1) == IF price # None \/ st.task[i].stage = 2 THEN Finish(s1, i, price)
                  ELSE StartSkinport(s1, i, 2)
  IN Then(NoteFirst(st, i, price))

\* the step of a coroutine ends in st
Become(st) ==
  \E s \in {st} :
     /\ task' = s.task
     /\ _CACHE' = s.C
     /\ _CACHE_EXPIRES' = s.E
     /\ sem_value' = s.sem
     /\ holders' = s.holders
     /\ lastGood' = s.good
     /\ lastQuote' = s.last
     /\ req' = s.req

(***************************************************************************)
(* /prices: get_prices                                                     *)
(***************************************************************************)

\* PricedItem with 0 in place of None for the profit of an unpriced item
PricedItem_ZeroProfit(r) ==
  LET current      == r.current_price
      paid         == IF r.paid_price = None \/ DecIsZero(r.paid_price) THEN <<0, 0>> ELSE r.paid_price
      qty          == IF r.quantity = 0 THEN 1 ELSE r.quantity
      profit_per   == IF current # None THEN Round2(DecSub(current, paid)) ELSE <<0, 0>>
      total_profit == IF current # None THEN Round2(DecMulInt(profit_per, qty)) ELSE None
      pct          == IF current # None /\ ~DecIsZero(paid)
                        THEN PercentOf(profit_per, paid) ELSE None
  IN [item_name       |-> r.item_name,
      source          |-> r.source,
      paid_price      |-> paid,
      current_price   |-> IF current # None THEN Round2(current) ELSE None,
      quantity        |-> qty,
      profit_per_item |-> profit_per,
      profit_total    |-> total_profit,
      percent_change  |-> pct,
      timestamp_utc   |-> r.timestamp_utc]

\* PricedItem with 0 in place of None for the change against a paid price of 0
PricedItem_ZeroPercent(r) ==
  LET current      == r.current_price
      paid         == IF r.paid_price = None \/ DecIsZero(r.paid_price) THEN <<0, 0>> ELSE r.paid_price
      qty          == IF r.quantity = 0 THEN 1 ELSE r.quantity
      profit_per   == IF current # None THEN Round2(DecSub(current, paid)) ELSE None
      total_profit == IF current # None THEN Round2(DecMulInt(profit_per, qty)) ELSE None
      pct          == IF current = None THEN None
                      ELSE IF DecIsZero(paid) THEN <<0, 0>>
                      ELSE PercentOf(profit_per, paid)
  IN [item_name       |-> r.item_name,
      source          |-> r.source,
      paid_price      |-> paid,
      current_price   |-> IF current # None THEN Round2(current) ELSE None,
      quantity        |-> qty,
      profit_per_item |-> profit_per,
      profit_total    |-> total_profit,
      percent_change  |-> pct,
      timestamp_utc   |-> r.timestamp_utc]

\* lines 311-335 for one result of gather
PricedItem(r) ==
  LET current      == r.current_price
      paid         == IF r.paid_price = None \/ DecIsZero(r.paid_price) THEN <<0, 0>> ELSE r.paid_price
      qty          == IF r.quantity = 0 THEN 1 ELSE r.quantity
      profit_per   == IF current # None THEN Round2(DecSub(current, paid)) ELSE None
      total_profit == IF current # None THEN Round2(DecMulInt(profit_per, qty)) ELSE None
      pct          == IF current # None /\ ~DecIsZero(paid)
                        THEN PercentOf(profit_per, paid) ELSE None
  IN [item_name       |-> r.item_name,
      source          |-> r.source,
      paid_price      |-> paid,
      current_price   |-> IF current # None THEN Round2(current) ELSE None,
      quantity        |-> qty,
      profit_per_item |-> profit_per,
      profit_total    |-> total_profit,
      percent_change  |-> pct,
      timestamp_utc   |-> r.timestamp_utc]

\* Gather with a semaphore one slot too wide
Gather_ExtraSlot(rows, slots) ==
  /\ items' = rows
  /\ task' = [i \in 1..Len(rows) |-> NewTask]
  /\ sem_value' = slots + 1
  /\ sem_waiters' = <<>>
  /\ holders' = {}
  /\ req' = "gather"

\* lines 301, 307: a fresh semaphore and one coroutine per row
Gather(rows, slots) ==
  /\ items' = rows
  /\ task' = [i \in 1..Len(rows) |-> NewTask]
  /\ sem_value' = slots
  /\ sem_waiters' = <<>>
  /\ holders' = {}
  /\ req' = "gather"

\* a /prices request arrives (requests are served one after the other: the
\* coroutines of the last one have all ended); read_items_from_sheet answers
\* from the cache or asks for the sheet
GetPrices(slots) ==
  /\ nreq < MaxRequests
  /\ req \in {"idle", "returned", "failed"}
  /\ \A i \in Tasks : Finished(i)
  /\ output' = None
  /\ IF cache_fresh(_CACHE_EXPIRES, SHEET_KEY)
       THEN /\ Gather(_CACHE[SHEET_KEY], slots)
            /\ UNCHANGED <<_CACHE, _CACHE_EXPIRES>>
       ELSE /\ _CACHE' = cache_get_C(_CACHE, _CACHE_EXPIRES, SHEET_KEY)
            /\ _CACHE_EXPIRES' = cache_get_E(_CACHE, _CACHE_EXPIRES, SHEET_KEY)
            /\ req' = "sheet"
            /\ items' = <<>>
            /\ task' = <<>>
            /\ UNCHANGED <<sem_value, sem_waiters, holders>>
  /\ nreq' = nreq + 1
  /\ UNCHANGED <<now, lastGood, lastQuote>>
  /\ UNCHANGED call

\* fetch_sheet_csv_text fails (502), or the sheet has no usable row (400)
SheetFails ==
  /\ req = "sheet"
  /\ req' = "failed"
  /\ UNCHANGED <<now, _CACHE, _CACHE_EXPIRES, items, task, sem_value, sem_waiters, output, nreq,
                 holders, lastGood, lastQuote>>
  /\ UNCHANGED call

\* fetch_sheet_csv_text returns the text of a sheet (lines 141-173)
SheetReturns(sheet, slots) ==
  /\ req = "sheet"
  /\ LET rows == ParseRows(sheet)
     IN IF rows = <<>>
          THEN /\ req' = "failed"
               /\ UNCHANGED <<_CACHE, _CACHE_EXPIRES, items, task, sem_value, sem_waiters, holders>>
          ELSE /\ _CACHE' = cache_set_C(_CACHE, SHEET_KEY, rows)
               /\ _CACHE_EXPIRES' = cache_set_E(_CACHE_EXPIRES, SHEET_KEY, SHEET_TTL)
               /\ Gather(rows, slots)
  /\ UNCHANGED <<now, output, nreq, lastGood, lastQuote>>
  /\ UNCHANGED call

\* the first run of coroutine i, up to its first await (lines 258-270).
\* gather creates the tasks in the order of the rows and the event loop runs
\* them in that order.
Start(i) ==
  /\ task[i].pc = "init"
  /\ \A j \in Tasks : j < i => task[j].pc # "init"
  /\ LET key    == KeyOf(i)
         fresh  == cache_fresh(_CACHE_EXPIRES, key)
         \* history: the last quote of this key is older than its ttl
         expired == /\ key \in DOMAIN lastQuote
                    /\ now >= lastQuote[key][2] + CACHE_TTL_SECONDS
         cached == _CACHE[key]
         copy   == [cached EXCEPT !.paid_price = items[i].paid_price,
                                  !.quantity = items[i].quantity]
     IN IF fresh
          THEN /\ task' = [task EXCEPT ![i].pc = "done", ![i].hit = TRUE, ![i].t0 = now,
                                       ![i].stale = expired,
                                       ![i].result = <<copy>>]
               /\ UNCHANGED <<_CACHE, _CACHE_EXPIRES, sem_value, sem_waiters, holders>>
          ELSE /\ _CACHE' = cache_get_C(_CACHE, _CACHE_EXPIRES, key)
               /\ _CACHE_EXPIRES' = cache_get_E(_CACHE, _CACHE_EXPIRES, key)
               /\ IF locked
                    THEN /\ task' = [task EXCEPT ![i].pc = "acquire", ![i].t0 = now,
                                                 ![i].stale = expired]
                         /\ sem_waiters' = Append(sem_waiters, i)
                         /\ UNCHANGED <<sem_value, holders>>
                    ELSE /\ task' = [task EXCEPT ![i].pc = "delay", ![i].t0 = now,
                                                 ![i].stale = expired]
                         /\ sem_value' = sem_value - 1
                         /\ holders' = holders \cup {i}
                         /\ UNCHANGED sem_waiters
  /\ UNCHANGED <<now, req, items, output, nreq, lastGood, lastQuote>>
  /\ UNCHANGED call

\* the first waiter is woken by a release and takes the slot
Acquire(i) ==
  /\ AllStarted
  /\ task[i].pc = "acquire"
  /\ sem_waiters # <<>> /\ Head(sem_waiters) = i
  /\ sem_value > 0
  /\ sem_value' = sem_value - 1
  /\ sem_waiters' = Tail(sem_waiters)
  /\ task' = [task EXCEPT ![i].pc = "delay"]
  /\ holders' = holders \cup {i}
  /\ UNCHANGED <<now, _CACHE, _CACHE_EXPIRES, req, items, output, nreq, lastGood, lastQuote>>
  /\ UNCHANGED call

\* asyncio.sleep(REQUEST_DELAY) is over: lines 271-273 or 276-277
DelayDone(i) ==
  /\ AllStarted
  /\ task[i].pc = "delay"
  /\ Become(IF items[i].source = SKINPORT
              THEN StartSkinport(Here, i, 1)
              ELSE StartSteam(Here, i, 1))
  /\ UNCHANGED <<now, items, sem_waiters, output, nreq>>
  /\ UNCHANGED call

\* the GET of fetch_steam_price ends with r
SteamReturns(i, r) ==
  /\ AllStarted
  /\ task[i].pc = "steam"
  /\ Become(SteamResult(Here, i, SteamQuote[r]))
  /\ UNCHANGED <<now, items, sem_waiters, output, nreq>>
  /\ UNCHANGED call

\* Retriable with a sleep after every attempt that delivered no catalog
Retriable_AnyFailure(r) ==
  TRUE

\* lines 219, 223: the argument of asyncio.sleep after the attempt numbered
\* attempt by range(3), in tenths of a second
BackoffDelay(attempt) ==
  BACKOFF_BASE * (attempt + 1)

\* lines 213-223: is the attempt that ended with r followed by a sleep
Retriable(r) ==
  \/ IsExc(r)
  \/ Status(r) = 200 /\ ~IsJson(Body(r))
  \/ Status(r) >= 500 /\ Status(r) < 600

\* the GET of fetch_skinport_catalog ends with r (lines 212-223)
CatalogReturns(i, r) ==
  /\ AllStarted
  /\ task[i].pc = "catalog"
  /\ Become(IF ~IsExc(r) /\ Status(r) = 200 /\ IsJson(Body(r)) /\ Body(r)[1] = "list"
              THEN CatalogResult([Here EXCEPT !.C = cache_set_C(@, CATALOG_KEY, Body(r)[2]),
                                              !.E = cache_set_E(@, CATALOG_KEY, CATALOG_TTL),
                                              !.good = <<Body(r)[2]>>],
                                 i, Body(r)[2])
            ELSE IF Retriable(r)
              THEN [Here EXCEPT !.task[i].pc = "backoff"]
            ELSE CatalogResult(Here, i, <<>>))
  /\ UNCHANGED <<now, items, sem_waiters, output, nreq>>
  /\ UNCHANGED call

\* the sleep after a failed attempt is over: the next attempt, or the end of
\* the loop and return []
BackoffDone(i) ==
  /\ AllStarted
  /\ task[i].pc = "backoff"
  /\ Become(IF task[i].attempt + 1 < CATALOG_ATTEMPTS
              THEN [Here EXCEPT !.task[i].pc = "catalog",
                                !.task[i].attempt = @ + 1,
                                !.task[i].ncat = @ + 1]
              ELSE CatalogResult(Here, i, <<>>))
  /\ UNCHANGED <<now, items, sem_waiters, output, nreq>>
  /\ UNCHANGED call

\* Return with the results taken from the last coroutine to the first
Return_Reversed ==
  /\ req = "gather"
  /\ \A i \in Tasks : task[i].pc = "done"
  /\ output' = <<[i \in Tasks |-> PricedItem(task[Len(task) + 1 - i].result[1])]>>
  /\ req' = "returned"
  /\ UNCHANGED <<now, _CACHE, _CACHE_EXPIRES, items, task, sem_value, sem_waiters, nreq,
                 holders, lastGood, lastQuote>>
  /\ UNCHANGED call

\* gather has every result: lines 310-336
Return ==
  /\ req = "gather"
  /\ \A i \in Tasks : task[i].pc = "done"
  /\ output' = <<[i \in Tasks |-> PricedItem(task[i].result[1])]>>
  /\ req' = "returned"
  /\ UNCHANGED <<now, _CACHE, _CACHE_EXPIRES, items, task, sem_value, sem_waiters, nreq,
                 holders, lastGood, lastQuote>>
  /\ UNCHANGED call

\* time passes
Tick(t) ==
  /\ t > now
  /\ now' = t
  /\ UNCHANGED <<_CACHE, _CACHE_EXPIRES, req, items, task, sem_value, sem_waiters, output, nreq,
                 holders, lastGood, lastQuote>>
  /\ UNCHANGED call

\* the service after the import of the module, with REQUEST_CONCURRENCY = slots
ServiceBoot(slots) ==
  /\ now = 0
  /\ _CACHE = EmptyMap
  /\ _CACHE_EXPIRES = EmptyMap
  /\ req = "idle"
  /\ items = <<>>
  /\ task = <<>>
  /\ sem_value = slots
  /\ sem_waiters = <<>>
  /\ output = None
  /\ nreq = 0
  /\ holders = {}
  /\ lastGood = None
  /\ lastQuote = EmptyMap

\* the process has started with REQUEST_CONCURRENCY = slots
Boot(slots) ==
  /\ ServiceBoot(slots)
  /\ call = None

\* the steps of the coroutines of the request at hand
TaskStep ==
  \/ \E i \in Tasks : Start(i)
  \/ \E i \in Tasks : Acquire(i)
  \/ \E i \in Tasks : DelayDone(i)
  \/ \E i \in Tasks : \E r \in SteamResponses : SteamReturns(i, r)
  \/ \E i \in Tasks : \E r \in CatalogResponses : CatalogReturns(i, r)
  \/ \E i \in Tasks : BackoffDone(i)

\* the engine serving requests whose sheet has at most n rows, with
\* REQUEST_CONCURRENCY = slots
Engine(n, slots) ==
  \/ GetPrices(slots)
  \/ SheetFails
  \/ \E sheet \in SheetsOf(n) : SheetReturns(sheet, slots)
  \/ TaskStep
  \/ Return

\* Requests of up to MaxItems rows, served within one reading of the clock
\* (a stretch of time shorter than every ttl).
Init ==
  Boot(REQUEST_CONCURRENCY)

Next ==
  Engine(MaxItems, REQUEST_CONCURRENCY)

Spec ==
  Init /\ [][Next]_vars

InitTTL ==
  Boot(TTL_CONCURRENCY)

\* Requests of up to TTLItems rows while the clock runs: records expire
\* between requests and in the middle of one.
NextTTL ==
  \/ Engine(TTLItems, TTL_CONCURRENCY)
  \/ \E t \in Instants : Tick(t)

SpecTTL ==
  InitTTL /\ [][NextTTL]_vars

\* Requests of up to TTLItems rows with TTL_CONCURRENCY slots, served within
\* one reading of the clock
NextLive ==
  Engine(TTLItems, TTL_CONCURRENCY)

\* Those requests when every step that can be taken is taken in the end: the
\* event loop runs every coroutine that is ready, and every GET and every
\* sleep comes to an end.
SpecLive ==
  InitTTL /\ [][NextLive]_vars /\ WF_vars(TaskStep) /\ WF_vars(Return)

DecoratedSheets ==
  { s \in SeqsUpTo(DecoratedRows, TTLItems) : s # <<>> /\ NoRepeat(s) }

\* Requests for that inventory while the clock runs: the sheet may have
\* changed when its cached rows have expired.
NextNames ==
  \/ GetPrices(TTL_CONCURRENCY)
  \/ SheetFails
  \/ \E sheet \in DecoratedSheets : SheetReturns(sheet, TTL_CONCURRENCY)
  \/ TaskStep
  \/ Return
  \/ \E t \in Instants : Tick(t)

SpecNames ==
  InitTTL /\ [][NextNames]_vars

(***************************************************************************)
(* The helpers on their own: a helper is called with an argument drawn     *)
(* from a bounded set while the service stands still                       *)
(***************************************************************************)

service ==
  <<now, _CACHE, _CACHE_EXPIRES, req, items, task, sem_value, sem_waiters, output, nreq,
    holders, lastGood, lastQuote>>

\* a helper is about to be called with x
Called(x) ==
  /\ ServiceBoot(REQUEST_CONCURRENCY)
  /\ call = [arg |-> x, ret |-> <<>>]

\* the concatenation of the strings of a sequence
RECURSIVE Concat(_)
Concat(ss) ==
  IF ss = <<>> THEN <<>> ELSE Head(ss) \o Concat(Tail(ss))

\* the pieces item names are made of
NameTokens ==
  { <<"s","t","a","t">>, <<"t","r","a","k">>, <<"f","i","e","l","d">>,
    <<"t","e","s","t","e","d">>, <<"A","K">>, <<"_">>, <<" ">>, <<".">>, <<"-">>, <<STAR>> }

\* item names: up to MaxTokens pieces in a row
NameInputs ==
  { Concat(ss) : ss \in SeqsUpTo(NameTokens, MaxTokens) }

\* entries of a catalog: a decorated name that contains the item's, another
\* spelling of the item's name, the item's name as the second name only, a
\* longer name as the second name, another item, and an entry without names
MatchEntries ==
  { JObj([market_hash_name |-> JStr(NameAK \o <<" ","|"," ","R","e","d">>)]),
    JObj([market_hash_name |-> JStr(NameAKDecorated)]),
    JObj([name |-> JStr(NameAK)]),
    JObj([market_hash_name |-> JStr(<<"M","4">>),
          name |-> JStr(NameAK \o <<" ","R","e","d">>)]),
    JObj([market_hash_name |-> JStr(<<"M","4">>)]),
    JObj(EmptyMap) }

\* names to look up: the item, a longer name, a name of decoration only
MatchTargets ==
  { NameAK, <<"a","k","-","4","7"," ","|"," ","r","e","d">>, <<STAR>> }

MatchInputs ==
  { [catalog |-> c, target_name |-> x] :
       c \in SeqsUpTo(MatchEntries, MaxCatalog), x \in MatchTargets }

\* best_skinport_match is called
Match ==
  /\ call.ret = <<>>
  /\ call' = [call EXCEPT !.ret = <<best_skinport_match(call.arg.catalog, call.arg.target_name)>>]
  /\ UNCHANGED service

InitMatch ==
  \E x \in MatchInputs : Called(x)

NextMatch ==
  Match

SpecMatch ==
  InitMatch /\ [][NextMatch]_vars

\* the pieces price texts are made of
PriceTokens ==
  { <<"0">>, <<"1">>, <<"2">>, <<"3">>, <<"2","3","4">>, <<"5","6">>, <<"7","5">>,
    <<",">>, <<".">>, <<"$">> }

\* price texts: up to MaxPieces pieces in a row, MaxPriceLen characters at most
PriceInputs ==
  { s \in { Concat(ss) : ss \in SeqsUpTo(PriceTokens, MaxPieces) } : Len(s) <= MaxPriceLen }

\* extract_number_from_price_str is called
Extract ==
  /\ call.ret = <<>>
  /\ call' = [call EXCEPT !.ret = <<extract_number_from_price_str(call.arg)>>]
  /\ UNCHANGED service

InitExtract ==
  \E x \in PriceInputs : Called(x)

NextExtract ==
  Extract

SpecExtract ==
  InitExtract /\ [][NextExtract]_vars

\* normalize_name is applied to the name, then to what it returned
Normalize ==
  /\ Len(call.ret) < MaxApply
  /\ call' = [call EXCEPT !.ret = Append(@, normalize_name(IF @ = <<>> THEN call.arg
                                                           ELSE @[Len(@)]))]
  /\ UNCHANGED service

InitNormalize ==
  \E x \in NameInputs : Called(x)

NextNormalize ==
  Normalize

SpecNormalize ==
  InitNormalize /\ [][NextNormalize]_vars

(***************************************************************************)
(* Properties                                                              *)
(***************************************************************************)

\* the source a row names first ("skinport" only for that very word) and the other
Pref(i) ==
  IF items[i].source = SKINPORT THEN "skinport" ELSE "steam"

Alt(i) ==
  IF items[i].source = SKINPORT THEN "steam" ELSE "skinport"

Count(s, x) ==
  Cardinality({ k \in DOMAIN s : s[k] = x })

\* the GETs coroutine i has issued: one per call of fetch_steam_price, and the
\* attempts of fetch_skinport_catalog
Upstream(i) ==
  Count(task[i].tried, "steam") + task[i].ncat

\* the coroutines whose GET of the catalog is in flight
FetchingCatalog ==
  { i \in Tasks : task[i].pc = "catalog" }

\* C1: single-flight catalog fetch: at no time are two GETs of the catalog in
\* flight together (concurrent misses of the catalog cache share one fetch).
C1_SingleFlight ==
  Cardinality(FetchingCatalog) <= 1

\* C2: a resolution that starts while the last finished resolution of its
\* (source, name) is younger than CACHE_TTL_SECONDS ends in its first run as
\* a cache hit: it issues no GET (no direct quote, no catalog fetch) and
\* returns the current price of that resolution.
C2_CacheHit ==
  [][\A i \in Tasks :
       ( /\ task[i].pc = "init"
         /\ i \in DOMAIN task'
         /\ task'[i].pc # "init"
         /\ KeyOf(i) \in DOMAIN lastQuote
         /\ now < lastQuote[KeyOf(i)][2] + CACHE_TTL_SECONDS )
       => ( /\ task'[i].pc = "done"
            /\ task'[i].hit
            /\ task'[i].tried = <<>>
            /\ task'[i].ncat = 0
            /\ task'[i].result[1].current_price = lastQuote[KeyOf(i)][1] )]_vars

\* a priced quote is served from the cache some time after it was taken
C2_Witness ==
  \E i \in Tasks :
     /\ task[i].hit
     /\ task[i].result[1].current_price # None
     /\ task[i].t0 > task[i].result[1].timestamp_utc

\* C3 as claimed: a resolution that starts after the ttl of the last quote of
\* its key has elapsed is not served from the cache and makes exactly one
\* upstream request.
C3_Original ==
  \A i \in Tasks :
     (task[i].stale /\ task[i].pc = "done") => (~task[i].hit /\ Upstream(i) = 1)

\* C3 as amended: a record is never served once its ttl has elapsed, and a
\* resolution that starts after the ttl of the last quote of its key has
\* elapsed runs the miss path once: the preferred source first, each source at
\* most once, at most one direct quote request and at most CATALOG_ATTEMPTS
\* catalog requests (none at all when a fresh cached catalog answers).
C3_Amended ==
  \A i \in Tasks :
     /\ task[i].hit =>
          task[i].t0 < task[i].result[1].timestamp_utc + CACHE_TTL_SECONDS
     /\ task[i].stale => ~task[i].hit
     /\ (task[i].stale /\ task[i].pc = "done") =>
          /\ task[i].tried # <<>>
          /\ task[i].tried[1] = Pref(i)
          /\ Count(task[i].tried, "steam") <= 1
          /\ Count(task[i].tried, "skinport") <= 1
          /\ task[i].ncat <= CATALOG_ATTEMPTS
          /\ Upstream(i) <= 1 + CATALOG_ATTEMPTS

\* a resolution after expiry that ended with a number of requests other than 1
C3_Witness ==
  \E i \in Tasks :
     /\ task[i].stale
     /\ task[i].pc = "done"
     /\ Upstream(i) # 1

\* C4: fallback.  A coroutine that misses the quote cache calls the preferred
\* source first; once that source has returned, the other one has been called
\* exactly once if it returned no quote and not at all if it returned a quote;
\* no source is called twice, and a cache hit calls none.
C4_Fallback ==
  \A i \in Tasks :
     /\ Len(task[i].tried) <= 2
     /\ task[i].tried # <<>> => task[i].tried[1] = Pref(i)
     /\ Len(task[i].tried) = 2 => task[i].tried[2] = Alt(i)
     /\ task[i].first = Pending => Len(task[i].tried) <= 1
     /\ task[i].first = <<"ret", None>> => task[i].tried = <<Pref(i), Alt(i)>>
     /\ (task[i].first # Pending /\ task[i].first # <<"ret", None>>) =>
          task[i].tried = <<Pref(i)>>
     /\ (task[i].pc = "done" /\ ~task[i].hit) => task[i].first # Pending
     /\ task[i].hit => task[i].tried = <<>>

\* both preferences have fallen back in one batch, and a preferred source has
\* answered with a quote
C4_Witness ==
  /\ \E i \in Tasks : task[i].pc = "done" /\ task[i].tried = <<"steam", "skinport">>
  /\ \E i \in Tasks : task[i].pc = "done" /\ task[i].tried = <<"skinport", "steam">>
  /\ \E i \in Tasks : task[i].pc = "done" /\ Len(task[i].tried) = 1

\* C5: a request over a list of rows that is not empty ends with exactly one
\* output record per row, the record of row i for item i.
C5_OneRecordPerItem ==
  (req \in {"returned", "failed"} /\ items # <<>>) =>
     /\ output # None
     /\ Len(output[1]) = Len(items)
     /\ \A i \in DOMAIN items : output[1][i].item_name = items[i].item_name

\* C6: failure isolation: no coroutine ends with an exception, whatever the
\* upstreams answer.
C6_NeverRaises ==
  \A i \in Tasks : task[i].pc # "raised"

\* C7: bounded concurrency: at most REQUEST_CONCURRENCY coroutines are inside
\* "async with sem" at any moment, the counter of the semaphore says how many
\* slots are left, and a coroutine whose GET is in flight holds a slot.
C7_BoundedConcurrency ==
  /\ Cardinality(holders) <= REQUEST_CONCURRENCY
  /\ sem_value = REQUEST_CONCURRENCY - Cardinality(holders)
  /\ \A i \in Tasks : task[i].pc \in {"delay", "steam", "catalog", "backoff"} => i \in holders

\* every slot is taken, a coroutine queues, and a holder has a GET in flight
C7_Witness ==
  /\ Cardinality(holders) = REQUEST_CONCURRENCY
  /\ \E i \in Tasks : task[i].pc = "acquire"
  /\ \E i \in holders : task[i].pc \in {"steam", "catalog"}

\* C8: fetch_skinport_catalog hands its caller the last catalog a GET ever
\* delivered, also when that snapshot has expired and the refresh fails, and
\* the empty list only when no GET has delivered one.
C8_LastGoodSnapshot ==
  [][\A i \in Tasks :
       ( /\ i \in DOMAIN task'
         /\ task[i].got = None
         /\ task'[i].got # None )
       => task'[i].got = (IF lastGood' = None THEN <<<<>>>> ELSE lastGood')]_vars

\* C9: in every output record, a null current_price comes with null
\* profit_per_item, profit_total and percent_change, and a current_price comes
\* with a profit_per_item and a profit_total.
C9_NullTogether ==
  output # None =>
    \A k \in DOMAIN output[1] :
       LET o == output[1][k]
       IN /\ o.current_price = None =>
               /\ o.profit_per_item = None
               /\ o.profit_total = None
               /\ o.percent_change = None
          /\ o.current_price # None =>
               /\ o.profit_per_item # None
               /\ o.profit_total # None

\* one record of the output is unpriced and another is priced, with its change
C9_Witness ==
  /\ output # None
  /\ \E k \in DOMAIN output[1] : output[1][k].current_price = None
  /\ \E k \in DOMAIN output[1] :
        /\ output[1][k].current_price # None
        /\ output[1][k].percent_change # None

\* C10: in every output record of a row whose paid price is 0 or did not parse,
\* percent_change is null, priced or not.
C10_ZeroPaid ==
  output # None =>
    \A k \in DOMAIN output[1] :
       /\ output[1][k].paid_price = <<0, 0>> => output[1][k].percent_change = None
       /\ (items[k].paid_price = None \/ items[k].paid_price = <<0, 0>>) =>
            /\ output[1][k].paid_price = <<0, 0>>
            /\ output[1][k].percent_change = None

\* a priced record of a row whose paid price did not parse, and a priced
\* record of a row whose paid price is 0
C10_Witness ==
  /\ output # None
  /\ \E k \in DOMAIN output[1] :
        items[k].paid_price = None /\ output[1][k].current_price # None
  /\ \E k \in DOMAIN output[1] :
        items[k].paid_price = <<0, 0>> /\ output[1][k].current_price # None

\* C11: normalize_name is idempotent: applied to a name it has returned, it
\* returns that name again, also when "stat" and "trak" (or "field" and
\* "tested") are parted by an underscore, a period, a glyph or two spaces.
C11_Idempotent ==
  Len(call.ret) = 2 => call.ret[2] = call.ret[1]

\* C12: the quote cache is keyed by the source and the normalized name: a
\* resolution that starts while a resolution of the same source and of a name
\* with the same normalize_name result has finished less than
\* CACHE_TTL_SECONDS ago ends in its first run as a cache hit and issues no GET.
C12_NormalizedKey ==
  [][\A i \in Tasks :
       ( /\ task[i].pc = "init"
         /\ i \in DOMAIN task'
         /\ task'[i].pc # "init"
         /\ \E k \in DOMAIN lastQuote :
               /\ k[1] = "price"
               /\ k[2] = items[i].source
               /\ normalize_name(k[3]) = normalize_name(items[i].item_name)
               /\ now < lastQuote[k][2] + CACHE_TTL_SECONDS )
       => ( /\ task'[i].pc = "done"
            /\ task'[i].hit
            /\ task'[i].tried = <<>>
            /\ task'[i].ncat = 0 )]_vars

\* C13: negative caching: a resolution that ends on the miss path with no
\* quote from either source stores its result like any other (current price
\* None, expiry CACHE_TTL_SECONDS later), and a resolution of the same key
\* that starts before that expiry is a cache hit: current price None, no GET.
C13_NegativeCaching ==
  [][\A i \in Tasks :
       /\ ( /\ i \in DOMAIN task'
            /\ task[i].pc # "done"
            /\ task'[i].pc = "done"
            /\ ~task'[i].hit
            /\ task'[i].result[1].current_price = None )
          => ( /\ Range(task'[i].tried) = {"steam", "skinport"}
               /\ KeyOf(i) \in DOMAIN _CACHE'
               /\ _CACHE'[KeyOf(i)].current_price = None
               /\ _CACHE_EXPIRES'[KeyOf(i)] = now + CACHE_TTL_SECONDS )
       /\ ( /\ i \in DOMAIN task'
            /\ task[i].pc = "init"
            /\ task'[i].pc # "init"
            /\ KeyOf(i) \in DOMAIN lastQuote
            /\ lastQuote[KeyOf(i)][1] = None
            /\ now < lastQuote[KeyOf(i)][2] + CACHE_TTL_SECONDS )
          => ( /\ task'[i].pc = "done"
               /\ task'[i].hit
               /\ task'[i].tried = <<>> /\ task'[i].ncat = 0
               /\ task'[i].result[1].current_price = None )]_vars

\* a result without a quote is served from the cache some time after both
\* sources had failed to give one
C13_Witness ==
  \E i \in Tasks :
     /\ task[i].hit
     /\ task[i].result[1].current_price = None
     /\ task[i].t0 > task[i].result[1].timestamp_utc
     /\ KeyOf(i) \in DOMAIN lastQuote
     /\ lastQuote[KeyOf(i)][1] = None

\* the records of the quote cache
QuoteKeys(C) ==
  { k \in DOMAIN C : k[1] = "price" }

\* C14: a record of the quote cache holds the market quote only (item name,
\* source, current price, timestamp), never a paid price or a quantity; a
\* cache hit returns the price and the source of the record with the paid
\* price and the quantity of its own row and leaves the record as it was.
C14_QuoteOnly ==
  [][/\ \A k \in QuoteKeys(_CACHE') :
          DOMAIN _CACHE'[k] = {"item_name", "source", "current_price", "timestamp_utc"}
     /\ \A i \in Tasks :
          ( /\ i \in DOMAIN task'
            /\ task[i].pc = "init"
            /\ task'[i].pc = "done"
            /\ task'[i].hit )
          => ( /\ task'[i].result[1].current_price = _CACHE[KeyOf(i)].current_price
               /\ task'[i].result[1].source = _CACHE[KeyOf(i)].source
               /\ task'[i].result[1].paid_price = items[i].paid_price
               /\ task'[i].result[1].quantity = items[i].quantity
               /\ _CACHE'[KeyOf(i)] = _CACHE[KeyOf(i)] )]_vars

\* a response with a status of the 5xx class
Is5xx(r) ==
  ~IsExc(r) /\ Status(r) >= 500 /\ Status(r) < 600

\* a response with status 200 whose body is a JSON list
IsCatalog(r) ==
  ~IsExc(r) /\ Status(r) = 200 /\ IsJson(Body(r)) /\ Body(r)[1] = "list"

\* what the retry loop of one fetch_skinport_catalog call does, given which
\* outcomes of an attempt count as retriable: at most CATALOG_ATTEMPTS GETs;
\* an attempt is followed by a wait exactly when its outcome is retriable, and
\* the wait is the base delay times the number of attempts made; a further
\* GET is issued only out of that wait; any other outcome that is no catalog
\* ends the call with that attempt; a catalog is stored with a fresh ttl and
\* ends the call.
RetryLoop(IsRetriable(_)) ==
  \A i \in Tasks :
     /\ i \in DOMAIN task' => task'[i].ncat <= CATALOG_ATTEMPTS
     /\ ( /\ i \in DOMAIN task'
          /\ task'[i].pc = "catalog"
          /\ task'[i].ncat > 1
          /\ task'[i].ncat # task[i].ncat )
        => task[i].pc = "backoff"
     /\ \A r \in { x \in CatalogResponses : task[i].pc = "catalog" } :
          CatalogReturns(i, r) =>
            /\ task'[i].pc = "backoff" <=> IsRetriable(r)
            /\ task'[i].pc = "backoff" =>
                  BackoffDelay(task'[i].attempt) = BACKOFF_BASE * task'[i].ncat
            /\ task'[i].pc # "catalog"
            /\ IsCatalog(r) =>
                  /\ _CACHE'[CATALOG_KEY] = Body(r)[2]
                  /\ _CACHE_EXPIRES'[CATALOG_KEY] = now + CATALOG_TTL

\* C15 as claimed: the retriable outcomes are a 5xx status and a transport
\* exception; every other outcome without a catalog (another status, or
\* status 200 with a payload that is no list) ends the call.
C15_Original ==
  [][RetryLoop(LAMBDA r : IsExc(r) \/ Is5xx(r))]_vars

\* C15 as amended: a status 200 whose body cannot be decoded as JSON is
\* retriable as well (r.json() raises inside the try block).
C15_Amended ==
  [][RetryLoop(LAMBDA r : IsExc(r) \/ Is5xx(r) \/ (Status(r) = 200 /\ ~IsJson(Body(r))))]_vars

\* a coroutine waits after its third failed attempt
C15_Witness ==
  \E i \in Tasks : task[i].pc = "backoff" /\ task[i].ncat = CATALOG_ATTEMPTS

\* the entries of the catalog at hand one of whose two normalized names
\* stands in relation Rel to the normalized target
Entries(Rel(_, _)) ==
  { i \in DOMAIN call.arg.catalog :
      \E k \in {"market_hash_name", "name"} :
         Rel(normalize_name(call.arg.target_name), EntryName(call.arg.catalog[i], k)) }

ExactEntries ==
  Entries(LAMBDA t, n : t = n)

ContainingEntries ==
  Entries(LAMBDA t, n : IsSubstring(t, n))

First(S) ==
  CHOOSE i \in S : \A j \in S : i <= j

\* C16: best_skinport_match returns the first entry in catalog order one of
\* whose normalized names equals the normalized target, even behind entries
\* that merely contain it; without such an entry, the first entry one of
\* whose normalized names contains the normalized target; else no entry.
C16_TwoPass ==
  call.ret # <<>> =>
    call.ret[1] = IF ExactEntries # {} THEN <<"found", First(ExactEntries)>>
                  ELSE IF ContainingEntries # {} THEN <<"found", First(ContainingEntries)>>
                  ELSE <<"none">>

\* the entry returned matches exactly and stands behind one that only contains
\* the target
C16_Witness ==
  /\ call.ret = << <<"found", 2>> >>
  /\ 1 \in ContainingEntries \ ExactEntries

\* the first run of digits, commas and periods of the price text at hand
NumericRun ==
  FirstNumRun(call.arg)

HasComma ==
  \E k \in DOMAIN NumericRun : NumericRun[k] = ","

HasPeriod ==
  \E k \in DOMAIN NumericRun : NumericRun[k] = "."

\* the characters behind the last comma
AfterLastComma ==
  LET last == CHOOSE k \in DOMAIN NumericRun :
                 NumericRun[k] = "," /\ \A j \in k + 1 .. Len(NumericRun) : NumericRun[j] # ","
  IN SubSeq(NumericRun, last + 1, Len(NumericRun))

\* s with every comma replaced by the characters of by
RECURSIVE CommasTo(_, _)
CommasTo(s, by) ==
  IF s = <<>> THEN <<>>
  ELSE (IF Head(s) = "," THEN by ELSE <<Head(s)>>) \o CommasTo(Tail(s), by)

\* C17: the comma-only rule: when the first run of digits, commas and periods
\* holds a comma and no period, the commas are removed if exactly 3 characters
\* follow the last one and are each replaced by a period otherwise, and the
\* result is the number the rewritten text spells, None if it spells none;
\* a text without such a run gives None.  "1,234" gives 1234, "0,75" gives
\* 0.75 and "1,2,3" gives None.
C17_CommaOnly ==
  call.ret # <<>> =>
    /\ NumericRun = <<>> => call.ret[1] = None
    /\ (HasComma /\ ~HasPeriod) =>
          call.ret[1] = PyFloat(IF Len(AfterLastComma) = 3
                                  THEN CommasTo(NumericRun, <<>>)
                                  ELSE CommasTo(NumericRun, <<".">>))
    /\ call.arg = <<"1",",","2","3","4">> => call.ret[1] = Dec(1234, 0)
    /\ call.arg = <<"0",",","7","5">> => call.ret[1] = Dec(75, 2)
    /\ call.arg = <<"1",",","2",",","3">> => call.ret[1] = None

\* a price with a decimal comma behind a currency sign has been parsed
C17_Witness ==
  /\ call.arg = <<"$","0",",","7","5">>
  /\ call.ret = << Dec(75, 2) >>

\* C18: both separators: when the first run of digits, commas and periods
\* holds a comma and a period, the commas are removed and the period is the
\* decimal point, so that "1,234.56" gives 1234.56 and "1.234,56" gives
\* 1234.56 as well.
C18_BothSeparators ==
  call.ret # <<>> =>
    /\ (HasComma /\ HasPeriod) => call.ret[1] = PyFloat(CommasTo(NumericRun, <<>>))
    /\ call.arg = <<"1",",","2","3","4",".","5","6">> => call.ret[1] = Dec(123456, 2)
    /\ call.arg = <<"1",".","2","3","4",",","5","6">> => call.ret[1] = Dec(123456, 2)

\* C19: the list /prices returns is in the order of the rows: its i-th record
\* carries the item name, the source, the paid price (0 for a row without
\* one) and the quantity of row i, however the coroutines interleave and
\* also when rows share a name and a cache record.
C19_InputOrder ==
  output # None =>
    /\ Len(output[1]) = Len(items)
    /\ \A i \in DOMAIN items :
         /\ output[1][i].item_name = items[i].item_name
         /\ output[1][i].source = items[i].source
         /\ output[1][i].paid_price = IF items[i].paid_price = None THEN Dec(0, 0)
                                      ELSE items[i].paid_price
         /\ output[1][i].quantity = items[i].quantity

\* a list of several records has been returned in which a row was served from
\* a cache record that holds another paid price, and two rows of the same name
\* and source differ in quantity
C19_Witness ==
  /\ output # None
  /\ Len(output[1]) >= 2
  /\ \E i \in Tasks :
       /\ task[i].hit
       /\ KeyOf(i) \in DOMAIN _CACHE
       /\ _CACHE[KeyOf(i)].paid_price # items[i].paid_price
  /\ \E i, j \in DOMAIN items :
       /\ items[i].item_name = items[j].item_name
       /\ items[i].source = items[j].source
       /\ items[i].quantity # items[j].quantity

\* the request at hand is over: answered or failed, every coroutine has
\* ended, and every slot of the semaphore is free
Completed ==
  /\ req \in {"returned", "failed"}
  /\ \A i \in Tasks : Finished(i)
  /\ sem_value = TTL_CONCURRENCY
  /\ sem_waiters = <<>>
  /\ holders = {}

\* C20: progress: when every GET and every sleep ends and the event loop is
\* fair, every coroutine of a request gets a slot of the semaphore, every
\* coroutine that holds a slot ends and gives it back (with a price, without
\* one, or with an exception), and the request comes to its end with every
\* slot free, also for more rows than slots.  As stated, for every coroutine:
\* one that is answered from the cache (lines 262-267) never enters the
\* semaphore.
C20_Original ==
  /\ \A i \in 1..TTLItems :
        /\ (i \in Tasks /\ task[i].pc = "init") ~> (i \in holders)
        /\ (i \in holders) ~> (i \in Tasks /\ Finished(i) /\ i \notin holders)
  /\ (req = "gather") ~> Completed

\* C20, for the coroutines that miss the cache: each of them gets a slot,
\* also when it has to queue for it; one that hits the cache ends without a
\* slot; a coroutine that holds a slot ends and gives it back, and the
\* request comes to its end with every slot free.
C20_Progress ==
  /\ \A i \in 1..TTLItems :
        /\ (i \in Tasks /\ task[i].pc = "init")
              ~> (i \in Tasks /\ (i \in holders \/ (task[i].hit /\ Finished(i))))
        /\ (i \in Tasks /\ task[i].pc = "acquire") ~> (i \in holders)
        /\ (i \in holders) ~> (i \in Tasks /\ Finished(i) /\ i \notin holders)
  /\ (req = "gather") ~> Completed

\* a request of more rows than slots is over with every slot free after one
\* coroutine ended with an exception and the one that had queued behind it
\* ended with a price
C20_Witness ==
  /\ Completed
  /\ Len(task) > TTL_CONCURRENCY
  /\ \A i \in Tasks : ~task[i].hit
  /\ task[1].pc = "raised"
  /\ \E i \in Tasks : task[i].pc = "done" /\ task[i].result[1].current_price # None

====
